---- MODULE Spec2Model ----
(***************************************************************************)
(* Model of the query engine of the Healthcare Cost Navigator:             *)
(*   app/nl.py    scope gate, fallback parser, completion-service extract  *)
(*   app/main.py  geocoding, /providers and /ask handlers                  *)
(* One behaviour of the model is one request handled by the service.       *)
(*                                                                         *)
(* Text is a sequence of one-character strings.  An optional value         *)
(* (Python's None or a value) is the empty tuple or a one-element tuple.   *)
(***************************************************************************)
EXTENDS Integers, Sequences, FiniteSets, TLC

None == << >>
Some(v) == << v >>
IsNone(o) == o = << >>
Val(o) == o[1]

(***************************************************************************)
(* Characters and the pieces of Python's str / re the code relies on.      *)
(***************************************************************************)
UpperChars == << "A", "B", "C", "D", "E", "F", "G", "H", "I", "J", "K", "L", "M",
                 "N", "O", "P", "Q", "R", "S", "T", "U", "V", "W", "X", "Y", "Z" >>
LowerChars == << "a", "b", "c", "d", "e", "f", "g", "h", "i", "j", "k", "l", "m",
                 "n", "o", "p", "q", "r", "s", "t", "u", "v", "w", "x", "y", "z" >>
DigitChars == << "0", "1", "2", "3", "4", "5", "6", "7", "8", "9" >>

Range(f) == { f[i] : i \in DOMAIN f }

Uppers == Range(UpperChars)
Lowers == Range(LowerChars)
Digits == Range(DigitChars)
WordChars == Digits \cup Uppers \cup Lowers \cup { "_" }

IsUpper(c) == c \in Uppers
IsDigit(c) == c \in Digits
IsSpace(c) == c = " "
\* \w of the re module, on the model's alphabet
IsWordChar(c) == c \in WordChars

LowerOf == [ c \in Uppers |-> LowerChars[CHOOSE i \in DOMAIN UpperChars : UpperChars[i] = c] ]
LowerChar(c) == IF IsUpper(c) THEN LowerOf[c] ELSE c

\* str.lower()
Lower(s) == [ i \in 1..Len(s) |-> LowerChar(s[i]) ]

DigitValOf == [ c \in Digits |-> (CHOOSE i \in DOMAIN DigitChars : DigitChars[i] = c) - 1 ]
DigitVal(c) == DigitValOf[c]

\* int() of a run of decimal digits
RECURSIVE DigitsToInt(_)
DigitsToInt(s) ==
    IF s = << >> THEN 0
    ELSE 10 * DigitsToInt(SubSeq(s, 1, Len(s) - 1)) + DigitVal(s[Len(s)])

\* str.strip(): leading and trailing whitespace removed
Strip(s) ==
    LET keep == { i \in 1..Len(s) : ~IsSpace(s[i]) }
    IN  IF keep = {} THEN << >>
        ELSE SubSeq(s, CHOOSE i \in keep : \A j \in keep : i <= j,
                       CHOOSE i \in keep : \A j \in keep : j <= i)

\* `sub in s` for Python strings
Contains(s, sub) ==
    \E i \in 1..(Len(s) - Len(sub) + 1) : SubSeq(s, i, i + Len(sub) - 1) = sub

\* \b : a word boundary between positions i-1 and i of s
AtBoundary(s, i) ==
    LET before == i > 1 /\ i - 1 <= Len(s) /\ IsWordChar(s[i - 1])
        after  == i >= 1 /\ i <= Len(s) /\ IsWordChar(s[i])
    IN  before # after

\* \d{n} at position i
DigitsAt(s, i, n) ==
    i + n - 1 <= Len(s) /\ \A k \in 0..(n - 1) : IsDigit(s[i + k])

\* a literal (given in lower case) at position i, under re.IGNORECASE
LitAt(s, i, lit) ==
    i + Len(lit) - 1 <= Len(s) /\ \A k \in 1..Len(lit) : LowerChar(s[i + k - 1]) = lit[k]

\* \s* from position i: the position after the longest run of whitespace
SkipSpaces(s, i) ==
    LET stops == { j \in i..(Len(s) + 1) : j > Len(s) \/ ~IsSpace(s[j]) }
    IN  CHOOSE j \in stops : \A k \in stops : j <= k

\* re.search: the leftmost of the positions where the pattern matches, or 0
FirstMatch(hits) ==
    IF hits = {} THEN 0 ELSE CHOOSE i \in hits : \A j \in hits : i <= j

\* the string literals of nl.py, as text
KW_DRG == << "d", "r", "g" >>
KW_MSDRG == << "m", "s", "-", "d", "r", "g" >>
KW_HOSPITAL == << "h", "o", "s", "p", "i", "t", "a", "l" >>
KW_PROVIDER == << "p", "r", "o", "v", "i", "d", "e", "r" >>
KW_RATING == << "r", "a", "t", "i", "n", "g" >>
KW_COST == << "c", "o", "s", "t" >>
KW_PRICE == << "p", "r", "i", "c", "e" >>
KW_CHARGES == << "c", "h", "a", "r", "g", "e", "s" >>
KW_PAYMENT == << "p", "a", "y", "m", "e", "n", "t" >>
KW_NEAR == << "n", "e", "a", "r" >>
KW_ZIP == << "z", "i", "p" >>
W_MILE == << "m", "i", "l", "e" >>
W_MILES == << "m", "i", "l", "e", "s" >>
W_MI == << "m", "i" >>
W_KM == << "k", "m" >>
W_KILOMETERS == << "k", "i", "l", "o", "m", "e", "t", "e", "r", "s" >>
W_CHEAP == << "c", "h", "e", "a", "p" >>
W_CHEAPEST == << "c", "h", "e", "a", "p", "e", "s", "t" >>
W_LOWCOST == << "l", "o", "w", " ", "c", "o", "s", "t" >>
W_LOWEST == << "l", "o", "w", "e", "s", "t" >>
W_BEST == << "b", "e", "s", "t" >>
W_TOP == << "t", "o", "p" >>
W_HIGHESTRATING == << "h", "i", "g", "h", "e", "s", "t", " ", "r", "a", "t", "i", "n", "g" >>
W_RATED == << "r", "a", "t", "e", "d" >>
W_AVERAGE == << "a", "v", "e", "r", "a", "g", "e" >>

(***************************************************************************)
(* app/nl.py                                                               *)
(***************************************************************************)
INTENT_CHOICES ==
    { "cheapest", "best_rated", "average_cost", "compare_costs" }

ScopeKeywords ==
    { KW_DRG, KW_MSDRG, KW_HOSPITAL, KW_PROVIDER, KW_RATING, KW_COST,
      KW_PRICE, KW_CHARGES, KW_PAYMENT, KW_NEAR,
      KW_ZIP }

is_scope_relevant(question) ==
    LET q == Lower(question)
    IN  \E k \in ScopeKeywords : Contains(q, k)

\* \bdrg\s*(\d{3})\b with re.IGNORECASE; the position of group 1, or 0
DrgGroupAt(s, i) ==
    IF AtBoundary(s, i) /\ LitAt(s, i, KW_DRG)
    THEN LET j == SkipSpaces(s, i + 3)
         IN  IF DigitsAt(s, j, 3) /\ AtBoundary(s, j + 3) THEN j ELSE 0
    ELSE 0

DrgMatchAt(s, i) == DrgGroupAt(s, i) # 0

\* \b(\d{5})\b
ZipMatchAt(s, i) == AtBoundary(s, i) /\ DigitsAt(s, i, 5) /\ AtBoundary(s, i + 5)

MileUnits == { W_MILE, W_MILES, W_MI }
KmUnits == { W_KM, W_KILOMETERS }

\* \b(\d{1,3})\s*(unit|...)\b with re.IGNORECASE at position i, group 1 of n digits
DistanceMatchN(s, i, n, units) ==
    /\ AtBoundary(s, i)
    /\ DigitsAt(s, i, n)
    /\ LET j == SkipSpaces(s, i + n)
       IN  \E u \in units : LitAt(s, j, u) /\ AtBoundary(s, j + Len(u))

\* the number of digits the greedy \d{1,3} ends up with, or 0 when no match
DistanceDigits(s, i, units) ==
    IF DistanceMatchN(s, i, 3, units) THEN 3
    ELSE IF DistanceMatchN(s, i, 2, units) THEN 2
    ELSE IF DistanceMatchN(s, i, 1, units) THEN 1
    ELSE 0

MilesMatchAt(s, i) == DistanceDigits(s, i, MileUnits) # 0
KmMatchAt(s, i) == DistanceDigits(s, i, KmUnits) # 0

CheapWords == { W_CHEAP, W_CHEAPEST, W_LOWCOST, W_LOWEST }
BestWords == { W_BEST, W_TOP, W_HIGHESTRATING, W_RATED }

NLParams(intent, drg_query, zip_code, radius_km, top_k) ==
    [ intent |-> intent, drg_query |-> drg_query, zip_code |-> zip_code,
      radius_km |-> radius_km, top_k |-> top_k ]

FallbackDrg(question) ==
    LET i == FirstMatch({ p \in 1..Len(question) : DrgMatchAt(question, p) })
    IN  IF i = 0 THEN None
        ELSE LET g == DrgGroupAt(question, i) IN Some(SubSeq(question, g, g + 2))

FallbackZip(question) ==
    LET i == FirstMatch({ p \in 1..Len(question) : ZipMatchAt(question, p) })
    IN  IF i = 0 THEN None ELSE Some(SubSeq(question, i, i + 4))

\* FallbackRadius with the miles phrase winning over the kilometer phrase
FallbackRadius_MilesFirst(question) ==
    LET mi == FirstMatch({ p \in 1..Len(question) : MilesMatchAt(question, p) })
        km == FirstMatch({ p \in 1..Len(question) : KmMatchAt(question, p) })
        miles == DigitsToInt(SubSeq(question, mi, mi + DistanceDigits(question, mi, MileUnits) - 1))
    IN  IF mi # 0 THEN Some((miles * 1609) \div 1000)
        ELSE IF km # 0
        THEN Some(DigitsToInt(SubSeq(question, km, km + DistanceDigits(question, km, KmUnits) - 1)))
        ELSE None

\* nl.py 57-64
FallbackRadius(question) ==
    LET mi == FirstMatch({ p \in 1..Len(question) : MilesMatchAt(question, p) })
        km == FirstMatch({ p \in 1..Len(question) : KmMatchAt(question, p) })
        miles == DigitsToInt(SubSeq(question, mi, mi + DistanceDigits(question, mi, MileUnits) - 1))
    IN  IF km # 0
        THEN Some(DigitsToInt(SubSeq(question, km, km + DistanceDigits(question, km, KmUnits) - 1)))
        ELSE IF mi # 0 THEN Some((miles * 1609) \div 1000)
        ELSE None

FallbackIntent(question) ==
    LET q == Lower(question)
    IN  IF \E w \in CheapWords : Contains(q, w) THEN "cheapest"
        ELSE IF \E w \in BestWords : Contains(q, w) THEN "best_rated"
        ELSE IF Contains(q, W_AVERAGE) THEN "average_cost"
        ELSE "cheapest"

_fallback_parse(question) ==
    NLParams(FallbackIntent(question), FallbackDrg(question), FallbackZip(question),
             FallbackRadius(question), 3)

(***************************************************************************)
(* The completion service's reply.  json.loads and the client are library  *)
(* code: a reply is the exception the call raises, or the message content  *)
(* (absent, empty, not JSON, JSON that is no object, or a JSON object).    *)
(* A JSON object is a record of its five keys; data.get(k) of a missing    *)
(* key and of a null value are both None (JNull).                          *)
(***************************************************************************)
RECURSIVE NatToStr(_)
NatToStr(n) ==
    IF n < 10 THEN << DigitChars[n + 1] >>
    ELSE NatToStr(n \div 10) \o << DigitChars[(n % 10) + 1] >>

IntText(n) == IF n < 0 THEN << "-" >> \o NatToStr(0 - n) ELSE NatToStr(n)

\* the value of a decimal literal with an optional sign
TextInt(s) ==
    IF s[1] = "-" THEN 0 - DigitsToInt(Tail(s))
    ELSE IF s[1] = "+" THEN DigitsToInt(Tail(s))
    ELSE DigitsToInt(s)

JNull == [ t |-> "null", v |-> << >> ]
JStr(s) == [ t |-> "str", v |-> s ]
JInt(n) == [ t |-> "int", v |-> IntText(n) ]   \* a JSON number, by its literal
JList == [ t |-> "list", v |-> << >> ]         \* a non-empty JSON array

JObject(intent, drg_query, zip_code, radius_km, top_k) ==
    [ intent |-> intent, drg_query |-> drg_query, zip_code |-> zip_code,
      radius_km |-> radius_km, top_k |-> top_k ]

\* Python truthiness, as `x or default` uses it
Truthy(j) ==
    CASE j.t = "null" -> FALSE
      [] j.t = "str"  -> j.v # << >>
      [] j.t = "int"  -> TextInt(j.v) # 0
      [] j.t = "list" -> TRUE

\* str(x)
PyStr(j) ==
    CASE j.t = "null" -> << "N", "o", "n", "e" >>
      [] j.t = "str"  -> j.v
      [] j.t = "int"  -> j.v
      [] j.t = "list" -> << "[", "1", "]" >>

\* the digit part of an integer literal as int() reads it: digits, with
\* single underscores allowed between two digits
IsIntDigits(d) ==
    /\ d # << >>
    /\ \A i \in 1..Len(d) :
          \/ IsDigit(d[i])
          \/ /\ d[i] = "_"
             /\ i > 1 /\ i < Len(d)
             /\ IsDigit(d[i - 1]) /\ IsDigit(d[i + 1])

\* int(x): Some(n), or None when int() raises (ValueError, TypeError).  Of a
\* string: surrounding whitespace is dropped, then an optional sign and the
\* digit part, whose underscores do not count.
PyInt(j) ==
    CASE j.t = "int" -> Some(TextInt(j.v))
      [] j.t = "str" ->
            LET s == Strip(j.v)
                signed == s # << >> /\ s[1] \in { "-", "+" }
                digits == IF signed THEN Tail(s) ELSE s
                n == DigitsToInt(SelectSeq(digits, IsDigit))
            IN  IF IsIntDigits(digits)
                THEN Some(IF s[1] = "-" THEN 0 - n ELSE n)
                ELSE None
      [] OTHER -> None

IntentName(s) ==
    CASE s = << "c", "h", "e", "a", "p", "e", "s", "t" >> -> "cheapest"
      [] s = << "b", "e", "s", "t", "_", "r", "a", "t", "e", "d" >> -> "best_rated"
      [] s = << "a", "v", "e", "r", "a", "g", "e", "_", "c", "o", "s", "t" >> -> "average_cost"
      [] s = << "c", "o", "m", "p", "a", "r", "e", "_", "c", "o", "s", "t", "s" >> -> "compare_costs"
      [] OTHER -> "other"

\* nl.py 103-105
ParseIntent(j) ==
    LET raw == IF Truthy(j) THEN PyStr(j) ELSE << "c", "h", "e", "a", "p", "e", "s", "t" >>
        intent == IntentName(Lower(Strip(raw)))
    IN  IF intent \notin INTENT_CHOICES THEN "cheapest" ELSE intent

\* nl.py 106-108
ParseDrgQuery(j) == IF j.t = "null" THEN None ELSE Some(Strip(PyStr(j)))

\* ^\d{5}$ on a stripped string
IsFiveDigits(s) == Len(s) = 5 /\ DigitsAt(s, 1, 5)

\* ParseZipCode without the five-digit pattern
ParseZipCode_Unchecked(j) == IF j.t = "null" THEN None ELSE Some(Strip(PyStr(j)))

\* nl.py 109-114
ParseZipCode(j) ==
    IF j.t = "null" THEN None
    ELSE LET zip_code == Strip(PyStr(j))
         IN  IF IsFiveDigits(zip_code) THEN Some(zip_code) ELSE None

DefaultRadiusKm == 40
DefaultTopK == 3

\* nl.py 115-120, 126-127
ParseRadiusKm(j) ==
    LET radius_km == IF j.t = "null" THEN None ELSE PyInt(j)
    IN  IF IsNone(radius_km) THEN Some(DefaultRadiusKm) ELSE radius_km

\* nl.py 121-125
ParseTopK(j) ==
    LET top_k == IF Truthy(j) THEN PyInt(j) ELSE Some(DefaultTopK)
    IN  IF IsNone(top_k) THEN DefaultTopK ELSE Val(top_k)

\* nl.py 103-130: the parameters built from a parsed JSON object
ParseObject(data) ==
    NLParams(ParseIntent(data.intent), ParseDrgQuery(data.drg_query),
             ParseZipCode(data.zip_code), ParseRadiusKm(data.radius_km),
             ParseTopK(data.top_k))

EmptyObject == JObject(JNull, JNull, JNull, JNull, JNull)

\* kinds of reply on which the body of extract_params_with_openai raises
RaisingKinds == { "network_error", "service_error", "malformed", "non_object" }

\* Raises with a reply that is not a JSON object read as the empty object
Raises_CallErrorsOnly(reply) == reply.kind \in { "network_error", "service_error" }

Raises(reply) == reply.kind \in RaisingKinds

\* nl.py 101-102: `content or "{}"`, then json.loads
LoadedData(reply) ==
    IF reply.kind \in { "no_content", "empty_content" } THEN EmptyObject ELSE reply.data

\* tenacity: @retry(wait=wait_exponential(multiplier=1, min=1, max=8),
\*                  stop=stop_after_attempt(3))
RetryMultiplier == 1
RetryMinWait == 1
RetryMaxWait == 8
StopAfterAttempt == 3

Max(a, b) == IF a >= b THEN a ELSE b
Min(a, b) == IF a <= b THEN a ELSE b

\* wait_exponential with the exponent one too high
wait_exponential_FromTwo(attempt_number) ==
    Max(Max(0, RetryMinWait), Min(RetryMultiplier * 2 ^ attempt_number, RetryMaxWait))

\* the wait after the attempt_number-th attempt failed
wait_exponential(attempt_number) ==
    Max(Max(0, RetryMinWait), Min(RetryMultiplier * 2 ^ (attempt_number - 1), RetryMaxWait))

\* stop_after_attempt stopping one attempt early
ShouldStop_Early(attempt_number) == attempt_number >= StopAfterAttempt - 1

\* stop_after_attempt
ShouldStop(attempt_number) == attempt_number >= StopAfterAttempt

(***************************************************************************)
(* app/main.py: geocoding, distance and the storage queries                *)
(***************************************************************************)
Abs(x) == IF x < 0 THEN 0 - x ELSE x

\* 6371 km * pi / 180, in metres: the length of one degree of a great circle
MetresPerDegree == 111195

\* haversine_sql for two points of one meridian, where a = sin^2(dlat/2) and
\* 6371 * 2 * atan2(sqrt(a), sqrt(1 - a)) = 6371 * |dlat| (in radians); in
\* metres.  SQL arithmetic on a NULL coordinate is NULL (None).  Every
\* coordinate of the model lies on the meridian of the reference points.
haversine_sql(lat_lit, lon_lit, lat_col, lon_col) ==
    IF IsNone(lat_col) \/ IsNone(lon_col) THEN None
    ELSE Some(MetresPerDegree * Abs(Val(lat_col) - lat_lit))

\* distance_expr <= radius_km, FALSE when the comparison is NULL
WithinRadius(distance, radius_km) ==
    ~IsNone(distance) /\ Val(distance) <= radius_km * 1000

\* Procedure.ms_drg_definition.ilike("%" + drg + "%"), drg without % or _
ILikeContains(text, drg) == Contains(Lower(text), Lower(drg))

\* the joined rows of Provider x Procedure (outer join Rating) that satisfy
\* the WHERE clause of main.py 78-85 / 144-151 / 185-192
JoinRow(db, p, k, lat, lon) ==
    [ provider_id |-> p,
      name |-> p,
      proc |-> k,
      ms_drg_definition |-> db[p].procs[k].drg,
      average_covered_charges |-> db[p].procs[k].charge,
      rating |-> db[p].rating,
      distance_km |-> haversine_sql(lat, lon, db[p].lat, db[p].lon) ]

\* RowMatches by the text filter alone
RowMatches_TextOnly(db, p, k, drg, lat, lon, radius_km) ==
    ILikeContains(db[p].procs[k].drg, drg)

RowMatches(db, p, k, drg, lat, lon, radius_km) ==
    /\ ILikeContains(db[p].procs[k].drg, drg)
    /\ ~IsNone(db[p].lat)
    /\ ~IsNone(db[p].lon)
    /\ WithinRadius(haversine_sql(lat, lon, db[p].lat, db[p].lon), radius_km)

MatchingRows(db, drg, lat, lon, radius_km) ==
    UNION { { JoinRow(db, p, k, lat, lon) :
                k \in { j \in DOMAIN db[p].procs :
                          RowMatches(db, p, j, drg, lat, lon, radius_km) } } :
            p \in DOMAIN db }

\* x.asc().nullslast() on an optional number: a precedes-or-ties b
AscNullsLast(a, b) == IsNone(b) \/ (~IsNone(a) /\ Val(a) <= Val(b))
\* x.desc().nullslast()
DescNullsLast(a, b) == IsNone(b) \/ (~IsNone(a) /\ Val(a) >= Val(b))

\* ORDER BY rating DESC NULLS LAST, average_covered_charges ASC NULLS LAST
BestRatedOrder(r1, r2) ==
    IF r1.rating = r2.rating
    THEN AscNullsLast(r1.average_covered_charges, r2.average_covered_charges)
    ELSE DescNullsLast(r1.rating, r2.rating)

\* ORDER BY average_covered_charges ASC NULLS LAST (PostgreSQL's ASC default too)
PriceOrder(r1, r2) ==
    AscNullsLast(r1.average_covered_charges, r2.average_covered_charges)

\* the ORDER BY of a statement, by the branch that issues it
LessEq(order, r1, r2) ==
    IF order = "best_rated" THEN BestRatedOrder(r1, r2) ELSE PriceOrder(r1, r2)

\* r1 sorts strictly before r2
Precedes(order, r1, r2) == LessEq(order, r1, r2) /\ ~LessEq(order, r2, r1)

\* every arrangement of rows that tie under the sort key
RECURSIVE Perms(_)
Perms(T) ==
    IF T = {} THEN { << >> }
    ELSE UNION { { << m >> \o t : t \in Perms(T \ { m }) } : m \in T }

\* every sequence the database may return for ORDER BY: rows that tie under
\* the sort key come in an unspecified order.  The rows are split at a
\* median row into those before it, those that tie with it and those after.
RECURSIVE Ordered(_, _)
Ordered(S, order) ==
    IF S = {} THEN { << >> }
    ELSE LET n == Cardinality(S)
             pivot == CHOOSE x \in S :
                         /\ 2 * Cardinality({ y \in S : Precedes(order, y, x) }) <= n
                         /\ 2 * Cardinality({ y \in S : Precedes(order, x, y) }) <= n
             low == { y \in S : Precedes(order, y, pivot) }
             high == { y \in S : Precedes(order, pivot, y) }
         IN  { a \o m \o b : a \in Ordered(low, order), m \in Perms(S \ (low \cup high)),
                             b \in Ordered(high, order) }

\* LIMIT n
Limit(rows, n) == SubSeq(rows, 1, Min(n, Len(rows)))

BestRatedLimit == 500
ProvidersLimit == 100

\* main.py 166: no earlier row is of the provider of row i, so the loop
\* finds its provider_id not in seen_provider_ids
FirstOfProvider(rows, i) ==
    \A j \in 1..(i - 1) : rows[j].provider_id # rows[i].provider_id

\* Dedup that never skips a provider it has seen
Dedup_KeepAll(rows, top_k) ==
    LET firsts == 1..Len(rows)
        appended(i) == Cardinality({ j \in firsts : j <= i })
        kept == { i \in firsts : \A j \in firsts : j < i => appended(j) < top_k }
    IN  [ n \in 1..Cardinality(kept) |->
            rows[CHOOSE i \in kept : Cardinality({ j \in kept : j < i }) = n - 1] ]

\* main.py 163-171: the loop appends the first row of each provider until it
\* breaks, which it does after an append that leaves len(unique_rows) >=
\* top_k.  appended(i) is len(unique_rows) once row i is appended; a row is
\* kept when the loop has not broken at an earlier append.
Dedup(rows, top_k) ==
    LET firsts == { i \in 1..Len(rows) : FirstOfProvider(rows, i) }
        appended(i) == Cardinality({ j \in firsts : j <= i })
        kept == { i \in firsts : \A j \in firsts : j < i => appended(j) < top_k }
    IN  [ n \in 1..Cardinality(kept) |->
            rows[CHOOSE i \in kept : Cardinality({ j \in kept : j < i }) = n - 1] ]

RECURSIVE SumCharges(_)
SumCharges(S) ==
    IF S = {} THEN 0
    ELSE LET r == CHOOSE x \in S : TRUE
         IN  Val(r.average_covered_charges) + SumCharges(S \ { r })

\* SELECT avg(average_covered_charges), count(*): avg skips NULLs and is NULL
\* when no value is left; count(*) counts every row
Aggregate(S) ==
    LET priced == { r \in S : ~IsNone(r.average_covered_charges) }
    IN  [ avg_cost |-> IF priced = {} THEN None
                       ELSE Some([ sum |-> SumCharges(priced), n |-> Cardinality(priced) ]),
          count |-> Cardinality(S) ]

(***************************************************************************)
(* The inputs of the model: the stored corpus, the environment, requests   *)
(* and the replies of the completion service.                              *)
(***************************************************************************)
NumProviders == 2

Z10001 == << "1", "0", "0", "0", "1" >>
Z99999 == << "9", "9", "9", "9", "9" >>
D470 == << "4", "7", "0", " ", "H", "I", "P" >>
D291 == << "2", "9", "1", " ", "H", "F" >>

\* pgeocode's Nominatim("us").query_postal_code: the records a lookup may
\* yield.  10001 is the one known code, at 40 N 74 W on the model's grid;
\* any other text yields no record or a record of NaN.
NaNRecord == [ latitude |-> None, longitude |-> None ]
query_postal_code(zip_code) ==
    IF zip_code = Z10001
    THEN { Some([ latitude |-> Some(40), longitude |-> Some(0 - 74) ]) }
    ELSE { None, Some(NaNRecord) }

Proc(drg, charge) == [ drg |-> drg, charge |-> charge ]
Provider(lat, lon, rating, procs) ==
    [ lat |-> lat, lon |-> lon, rating |-> rating, procs |-> procs ]

\* providers as stored: at the reference point or one degree (111 km) north
\* of it, or without a coordinate; rated or not; one or two priced or
\* unpriced procedures
Profiles ==
    { Provider(Some(40), Some(0 - 74), Some(2), << Proc(D470, Some(200)), Proc(D291, Some(100)) >>),
      Provider(Some(40), Some(0 - 74), Some(1), << Proc(D470, Some(100)) >>),
      Provider(Some(40), Some(0 - 74), None, << Proc(D470, None) >>),
      Provider(Some(41), Some(0 - 74), Some(2), << Proc(D470, Some(100)) >>),
      Provider(None, Some(0 - 74), Some(2), << Proc(D470, Some(100)) >>),
      Provider(Some(40), None, None, << Proc(D291, Some(100)), Proc(D470, Some(200)) >>) }

Corpora == [ 1..NumProviders -> Profiles ]

\* a corpus whose first provider, the best rated, has one procedure more
\* than the best_rated statement fetches; the other providers have one
ManyProcedures == BestRatedLimit + 1
LargeCorpus ==
    [ p \in 1..NumProviders |->
        IF p = 1
        THEN Provider(Some(40), Some(0 - 74), Some(2),
                      [ k \in 1..ManyProcedures |->
                          Proc(<< "H", "I", "P", " " >> \o NatToStr(k), Some(k)) ])
        ELSE Provider(Some(40), Some(0 - 74), Some(1), << Proc(D470, Some(100)) >>) ]

\* a question: the phrases, in this order, joined by single spaces
RECURSIVE Join(_)
Join(phrases) ==
    IF phrases = << >> THEN << >>
    ELSE IF Head(phrases) = << >> THEN Join(Tail(phrases))
    ELSE LET rest == Join(Tail(phrases))
         IN  IF rest = << >> THEN Head(phrases) ELSE Head(phrases) \o << " " >> \o rest

IntentPhrases ==
    { << >>, << " ", "w", "e", "a", "t", "h", "e", "r" >>, << "C", "h", "e", "a", "p", "e", "s", "t" >>, << "b", "e", "s", "t", " ", "r", "a", "t", "e", "d" >>, << "a", "v", "e", "r", "a", "g", "e", " ", "c", "o", "s", "t" >> }
DrgPhrases == { << >>, << "D", "R", "G", " ", "4", "7", "0" >> }
PlacePhrases == { << >>, << "i", "n", " ", "1", "0", "0", "0", "1" >>, << "h", "o", "s", "p", "i", "t", "a", "l" >>, << "n", "e", "a", "r", " ", "1", "0", "0", "0", "1" >>, << "n", "e", "a", "r", " ", "9", "9", "9", "9", "9" >> }
RadiusPhrases == { << >>, << "w", "i", "t", "h", "i", "n", " ", "0", " ", "k", "m" >>, << "2", "5", " ", "M", "i", "l", "e", "s" >>, << "w", "i", "t", "h", "i", "n", " ", "1", "0", "0", " ", "m", "i", "l", "e", "s" >>, << "w", "i", "t", "h", "i", "n", " ", "1", "0", " ", "k", "m" >>, << "5", "k", "m", " ", "o", "r", " ", "2", "5", " ", "m", "i", "l", "e", "s", " " >> }

Questions ==
    { Join(<< i, d, p, r >>) : i \in IntentPhrases, d \in DrgPhrases,
                               p \in PlacePhrases, r \in RadiusPhrases }

\* with a credential the reply, not the question, decides the parameters
KeyQuestions ==
    { << " ", "w", "e", "a", "t", "h", "e", "r", " ", "i", "n", " ", "1", "0", "0", "0", "1" >>, << "C", "h", "e", "a", "p", "e", "s", "t", " ", "h", "o", "s", "p", "i", "t", "a", "l" >> }

AskRequest(question) ==
    [ endpoint |-> "ask", question |-> question, drg |-> << >>, zip |-> << >>,
      radius_km |-> DefaultRadiusKm ]
ProvidersRequest(drg, zip, radius_km) ==
    [ endpoint |-> "providers", question |-> << >>, drg |-> drg, zip |-> zip,
      radius_km |-> radius_km ]

ProvidersRequests ==
    { ProvidersRequest(d, z, r) :
        d \in { << >>, << "4", "7", "0" >>, << "h", "i", "p" >> },
        z \in { Z10001, Z99999, << "1", "2", "3", "4" >> },
        r \in { 0, DefaultRadiusKm, 150, 501 } }

Reply(kind, data) == [ kind |-> kind, data |-> data ]

IntentValues ==
    { JNull, JStr(<< "b", "e", "s", "t", "_", "r", "a", "t", "e", "d" >>), JStr(<< " ", "A", "v", "e", "r", "a", "g", "e", "_", "C", "o", "s", "t", " " >>), JStr(<< "c", "o", "m", "p", "a", "r", "e", "_", "c", "o", "s", "t", "s" >>),
      JStr(<< "b", "o", "g", "u", "s" >>), JInt(7) }
ZipValues ==
    { JNull, JStr(Z10001), JInt(10001), JStr(<< " ", "1", "0", "0", "0", "1", " " >>), JStr(Z99999), JStr(<< "1", "2", "3", "4" >>),
      JInt(1234), JStr(<< "1", "0", "0", "0", "1", "1" >>), JStr(<< >>), JList }
RadiusValues == { JNull, JInt(0), JInt(150), JStr(<< "1", "5", "0" >>), JStr(<< "1", "_", "0" >>), JStr(<< "f", "a", "r" >>), JList }
TopKValues ==
    { JNull, JInt(0), JStr(<< "0" >>), JInt(0 - 1), JInt(1), JInt(2), JStr(<< "1", "_", "0" >>), JStr(<< "m", "a", "n", "y" >>), JList }
DrgValues == { JNull, JStr(<< "h", "i", "p" >>), JStr(<< >>), JInt(470) }

QueryIntents == { JNull, JStr(<< "b", "e", "s", "t", "_", "r", "a", "t", "e", "d" >>), JStr(<< "a", "v", "e", "r", "a", "g", "e", "_", "c", "o", "s", "t" >>) }

\* JSON objects that vary what is validated, and objects with a good postal
\* code that vary what the query uses
Objects ==
    { JObject(i, JNull, z, JNull, JNull) : i \in IntentValues, z \in ZipValues }
    \cup { JObject(i, JNull, JStr(Z10001), JNull, k) : i \in QueryIntents, k \in TopKValues }
    \cup { JObject(i, d, JStr(Z10001), r, JNull) :
             i \in QueryIntents, d \in DrgValues, r \in RadiusValues }

Replies ==
    { Reply(k, EmptyObject) : k \in RaisingKinds \cup { "no_content", "empty_content" } }
    \cup { Reply("object", o) : o \in Objects }

\* the environment: OPENAI_API_KEY unset, empty or set, and whether the
\* openai package could be imported
Env(key, installed) == [ api_key |-> key, openai_installed |-> installed ]
Environments ==
    { Env(None, TRUE), Env(Some(<< >>), TRUE), Env(Some(<< "s", "k", "-", "t", "e", "s", "t" >>), FALSE),
      Env(Some(<< "s", "k", "-", "t", "e", "s", "t" >>), TRUE) }

(***************************************************************************)
(* The service handling one request.                                       *)
(***************************************************************************)
VARIABLES
    request,          \* the request: /ask with a question, /providers with drg, zip, radius_km
    api_key,          \* os.getenv("OPENAI_API_KEY")
    openai_installed, \* whether `from openai import OpenAI` succeeded
    corpus,           \* the stored providers, procedures and ratings the statement read
    pc,               \* the handler's position
    attempt_number,   \* tenacity's count of calls of extract_params_with_openai
    sleeps,           \* the waits tenacity slept, in order
    client_calls,     \* calls of client.chat.completions.create
    fallback_calls,   \* calls of _fallback_parse
    geocode_calls,    \* calls of geocode_zip
    storage_queries,  \* calls of session.execute
    reply,            \* the completion service's reply to the latest attempt
    params,           \* the NLParams of /ask, once extracted
    lookup,           \* the record the postal-code lookup returned, once made
    origin,           \* (lat, lon) of the geocoded postal code
    radius,           \* the radius_km the WHERE clause used
    rows,             \* the rows the statement returned
    unique_rows,      \* the deduplicated rows of the best_rated branch
    response          \* the response sent, once sent

vars ==
    << request, api_key, openai_installed, corpus, pc, attempt_number, sleeps,
       client_calls, fallback_calls, geocode_calls, storage_queries, reply, params,
       lookup, origin, radius, rows, unique_rows, response >>

Response(status, kind, body) == [ status |-> status, kind |-> kind, body |-> body ]

\* HasCredential taking an empty key for a credential
HasCredential_AnyKey == ~IsNone(api_key) /\ openai_installed

HasCredential == ~IsNone(api_key) /\ Val(api_key) # << >> /\ openai_installed

Init ==
    /\ corpus = << >>
    /\ \/ /\ request \in { AskRequest(q) : q \in Questions }
          /\ \E e \in Environments :
                api_key = e.api_key /\ openai_installed = e.openai_installed
          /\ HasCredential => request.question \in KeyQuestions
       \/ /\ request \in ProvidersRequests
          /\ api_key = None
          /\ openai_installed = TRUE
    /\ pc = IF request.endpoint = "ask" THEN "scope" ELSE "validate"
    /\ attempt_number = 0
    /\ sleeps = << >>
    /\ client_calls = 0
    /\ fallback_calls = 0
    /\ geocode_calls = 0
    /\ storage_queries = 0
    /\ reply = None
    /\ params = None
    /\ lookup = None
    /\ origin = None
    /\ radius = None
    /\ rows = << >>
    /\ unique_rows = << >>
    /\ response = None

Finish(r) == response' = Some(r) /\ pc' = "done"

\* AskScopeGate with the test of the gate inverted
AskScopeGate_Inverted ==
    /\ pc = "scope"
    /\ LET q == Strip(request.question)
       IN  IF is_scope_relevant(q)
           THEN Finish(Response(200, "scope_rejection", << >>))
           ELSE pc' = "extract" /\ UNCHANGED response
    /\ UNCHANGED << request, api_key, openai_installed, reply, lookup, corpus,
                    attempt_number, sleeps, client_calls, fallback_calls, geocode_calls,
                    storage_queries, params, origin, radius, rows, unique_rows >>

\* main.py 113-119
AskScopeGate ==
    /\ pc = "scope"
    /\ LET q == Strip(request.question)
       IN  IF ~is_scope_relevant(q)
           THEN Finish(Response(200, "scope_rejection", << >>))
           ELSE pc' = "extract" /\ UNCHANGED response
    /\ UNCHANGED << request, api_key, openai_installed, reply, lookup, corpus, attempt_number, sleeps,
                    client_calls, fallback_calls, geocode_calls, storage_queries,
                    params, origin, radius, rows, unique_rows >>

\* nl.py 80-82: no credential, the first attempt returns the fallback parse
ExtractFallback ==
    /\ pc = "extract"
    /\ ~HasCredential
    /\ attempt_number' = attempt_number + 1
    /\ fallback_calls' = fallback_calls + 1
    /\ params' = Some(_fallback_parse(Strip(request.question)))
    /\ pc' = "check_zip"
    /\ UNCHANGED << request, api_key, openai_installed, reply, lookup, corpus, sleeps, client_calls,
                    geocode_calls, storage_queries, origin, radius, rows, unique_rows,
                    response >>

\* nl.py 84-130 under tenacity's retry: one attempt against the completion
\* service; an exception is retried until stop_after_attempt, then re-raised
\* to the handler (RetryError, a server error)
ExtractAttempt ==
    /\ pc = "extract"
    /\ HasCredential
    /\ \E r \in Replies :
         /\ reply' = Some(r)
         /\ attempt_number' = attempt_number + 1
         /\ client_calls' = client_calls + 1
         /\ IF Raises(r)
            THEN /\ UNCHANGED params
                 /\ IF ShouldStop(attempt_number + 1)
                    THEN Finish(Response(500, "retry_error", << >>))
                    ELSE pc' = "backoff" /\ UNCHANGED response
            ELSE /\ params' = Some(ParseObject(LoadedData(r)))
                 /\ pc' = "check_zip"
                 /\ UNCHANGED response
    /\ UNCHANGED << request, api_key, openai_installed, lookup, corpus, sleeps, fallback_calls,
                    geocode_calls, storage_queries, origin, radius, rows, unique_rows >>

\* tenacity sleeps wait_exponential before the next attempt
Backoff ==
    /\ pc = "backoff"
    /\ sleeps' = Append(sleeps, wait_exponential(attempt_number))
    /\ pc' = "extract"
    /\ UNCHANGED << request, api_key, openai_installed, reply, lookup, corpus, attempt_number,
                    client_calls, fallback_calls, geocode_calls, storage_queries, params,
                    origin, radius, rows, unique_rows, response >>

\* NoZip testing for the empty string only
NoZip_EmptyOnly(p) == ~IsNone(p.zip_code) /\ Val(p.zip_code) = << >>

\* `not params.zip_code`: None or the empty string
NoZip(p) == IsNone(p.zip_code) \/ Val(p.zip_code) = << >>

\* main.py 122-123
AskCheckZip ==
    /\ pc = "check_zip"
    /\ IF NoZip(Val(params))
       THEN Finish(Response(400, "missing_zip", << >>))
       ELSE pc' = "geocode" /\ UNCHANGED response
    /\ UNCHANGED << request, api_key, openai_installed, reply, lookup, corpus, attempt_number, sleeps,
                    client_calls, fallback_calls, geocode_calls, storage_queries,
                    params, origin, radius, rows, unique_rows >>

\* main.py 52-54: the Query(...) constraints FastAPI enforces before the handler
ValidProviders(req) ==
    Len(req.zip) = 5 /\ req.radius_km >= 1 /\ req.radius_km <= 500

ProvidersValidate ==
    /\ pc = "validate"
    /\ IF ValidProviders(request)
       THEN pc' = "geocode" /\ UNCHANGED response
       ELSE Finish(Response(422, "unprocessable", << >>))
    /\ UNCHANGED << request, api_key, openai_installed, reply, lookup, corpus, attempt_number, sleeps,
                    client_calls, fallback_calls, geocode_calls, storage_queries,
                    params, origin, radius, rows, unique_rows >>

\* main.py 45: the lookup failed
GeocodeFails(rec) == IsNone(rec) \/ IsNone(Val(rec).latitude)

\* GeocodeZip looking the code up again after a failed lookup
GeocodeZip_Retrying ==
    /\ pc = "geocode"
    /\ geocode_calls' = geocode_calls + 1
    /\ LET zip_code == IF request.endpoint = "ask" THEN Val(Val(params).zip_code)
                       ELSE request.zip
       IN  \E rec \in query_postal_code(zip_code) :
             /\ lookup' = Some(rec)
             /\ IF GeocodeFails(rec)
                THEN IF geocode_calls >= 1
                     THEN Finish(Response(400, "invalid_zip", << >>)) /\ UNCHANGED origin
                     ELSE UNCHANGED << pc, response, origin >>
                ELSE /\ origin' = Some(<< Val(Val(rec).latitude), Val(Val(rec).longitude) >>)
                     /\ pc' = "query"
                     /\ UNCHANGED response
    /\ UNCHANGED << request, api_key, openai_installed, reply, corpus, attempt_number, sleeps,
                    client_calls, fallback_calls, storage_queries, params, radius,
                    rows, unique_rows >>

\* main.py 43-47, called at 57 and 124
GeocodeZip ==
    /\ pc = "geocode"
    /\ geocode_calls' = geocode_calls + 1
    /\ LET zip_code == IF request.endpoint = "ask" THEN Val(Val(params).zip_code)
                       ELSE request.zip
       IN  \E rec \in query_postal_code(zip_code) :
             /\ lookup' = Some(rec)
             /\ IF GeocodeFails(rec)
                THEN Finish(Response(400, "invalid_zip", << >>)) /\ UNCHANGED origin
                ELSE /\ origin' = Some(<< Val(Val(rec).latitude), Val(Val(rec).longitude) >>)
                     /\ pc' = "query"
                     /\ UNCHANGED response
    /\ UNCHANGED << request, api_key, openai_installed, reply, corpus, attempt_number, sleeps,
                    client_calls, fallback_calls, storage_queries, params, radius,
                    rows, unique_rows >>

\* main.py 125: params.radius_km or 40
RadiusInEffect(p) ==
    IF IsNone(p.radius_km) \/ Val(p.radius_km) = 0 THEN DefaultRadiusKm ELSE Val(p.radius_km)

\* main.py 128: the text between the % signs of drg_like
DrgFilter(p) == IF IsNone(p.drg_query) THEN << >> ELSE Val(p.drg_query)

AskMatching(db) ==
    MatchingRows(db, DrgFilter(Val(params)), Val(origin)[1], Val(origin)[2],
                 RadiusInEffect(Val(params)))

\* main.py 172-175: what the answer says of a listed row
Part(r) == [ name |-> r.name, rating |-> r.rating ]

\* main.py 154-176, over the stored contents dbs
AskBestRatedOn(dbs) ==
    /\ pc = "query"
    /\ request.endpoint = "ask"
    /\ Val(params).intent = "best_rated"
    /\ storage_queries' = storage_queries + 1
    /\ radius' = Some(RadiusInEffect(Val(params)))
    /\ \E db \in dbs : \E ordered \in Ordered(AskMatching(db), "best_rated") :
         LET fetched == Limit(ordered, BestRatedLimit)
             listed == Dedup(fetched, Val(params).top_k)
         IN  /\ corpus' = db
             /\ rows' = fetched
             /\ IF fetched = << >>
                THEN /\ unique_rows' = << >>
                     /\ Finish(Response(200, "no_match", << >>))
                ELSE /\ unique_rows' = listed
                     /\ Finish(Response(200, "best_rated",
                                        [ i \in 1..Len(listed) |-> Part(listed[i]) ]))
    /\ UNCHANGED << request, api_key, openai_installed, reply, lookup, attempt_number, sleeps,
                    client_calls, fallback_calls, geocode_calls, params, origin >>

AskBestRated == AskBestRatedOn(Corpora)

\* the mapped entities of the column list of the average_cost statement
\* (main.py 180-183: avg over a Procedure column, count() of nothing), the
\* entity it joins to and the entities of the ON clause (main.py 184)
AverageEntities == { "Procedure" }
AverageJoinTarget == "Procedure"
AverageOnClause == { "Procedure", "Provider" }

\* SQLAlchemy choosing the left side of select(...).join(target, onclause)
\* when the statement has no select_from: an entity of the column list,
\* other than the target, whose columns with the target's cover the ON clause
JoinLeftSides(entities, target, onclause) ==
    { e \in entities \ { target } : onclause \subseteq { e, target } }

\* main.py 178-199.  session.execute compiles the statement; with no left
\* side to join from (and no single one) SQLAlchemy raises
\* InvalidRequestError.  On a row, row.count is the method of the row's
\* sequence type, not the column labelled "count", so int(row.count) at 198
\* raises TypeError.
AskAverageCost ==
    /\ pc = "query"
    /\ request.endpoint = "ask"
    /\ Val(params).intent = "average_cost"
    /\ storage_queries' = storage_queries + 1
    /\ radius' = Some(RadiusInEffect(Val(params)))
    /\ \E db \in Corpora :
         /\ corpus' = db
         /\ IF Cardinality(JoinLeftSides(AverageEntities, AverageJoinTarget, AverageOnClause)) # 1
            THEN /\ rows' = << >>
                 /\ Finish(Response(500, "join_error", << >>))
            ELSE LET row == Aggregate(AskMatching(db))
                 IN  /\ rows' = << row >>
                     /\ IF IsNone(row.avg_cost)
                        THEN Finish(Response(200, "no_match_average", << >>))
                        ELSE Finish(Response(500, "type_error", << >>))
    /\ UNCHANGED << request, api_key, openai_installed, reply, lookup, attempt_number, sleeps,
                    client_calls, fallback_calls, geocode_calls, params, origin,
                    unique_rows >>

\* main.py 201-209; PostgreSQL refuses a negative LIMIT, float(None) raises
AskCheapest ==
    /\ pc = "query"
    /\ request.endpoint = "ask"
    /\ Val(params).intent \notin { "best_rated", "average_cost" }
    /\ storage_queries' = storage_queries + 1
    /\ radius' = Some(RadiusInEffect(Val(params)))
    /\ \E db \in Corpora :
       /\ corpus' = db
       /\ IF Val(params).top_k < 0
          THEN rows' = << >> /\ Finish(Response(500, "negative_limit", << >>))
          ELSE \E ordered \in Ordered(AskMatching(db), "price") :
              LET fetched == Limit(ordered, Val(params).top_k)
              IN  /\ rows' = fetched
                  /\ IF fetched = << >>
                     THEN Finish(Response(200, "no_match", << >>))
                     ELSE IF IsNone(fetched[1].average_covered_charges)
                     THEN Finish(Response(500, "type_error", << >>))
                     ELSE Finish(Response(200, "cheapest",
                                          << [ name |-> fetched[1].name,
                                               price |-> Val(fetched[1].average_covered_charges) ] >>))
    /\ UNCHANGED << request, api_key, openai_installed, reply, lookup, attempt_number, sleeps,
                    client_calls, fallback_calls, geocode_calls, params, origin,
                    unique_rows >>

\* schemas.py 5-16: average_covered_charges is a required float
ValidProviderResult(r) == ~IsNone(r.average_covered_charges)

\* main.py 58-108
ProvidersQuery ==
    /\ pc = "query"
    /\ request.endpoint = "providers"
    /\ storage_queries' = storage_queries + 1
    /\ radius' = Some(request.radius_km)
    /\ \E db \in Corpora :
        \E ordered \in Ordered(MatchingRows(db, request.drg, Val(origin)[1],
                                           Val(origin)[2], request.radius_km), "price") :
         LET fetched == Limit(ordered, ProvidersLimit)
         IN  /\ corpus' = db
             /\ rows' = fetched
             /\ IF \A i \in 1..Len(fetched) : ValidProviderResult(fetched[i])
                THEN Finish(Response(200, "providers", fetched))
                ELSE Finish(Response(500, "validation_error", << >>))
    /\ UNCHANGED << request, api_key, openai_installed, reply, lookup, attempt_number, sleeps,
                    client_calls, fallback_calls, geocode_calls, params, origin,
                    unique_rows >>

Next ==
    \/ AskScopeGate
    \/ ExtractFallback
    \/ ExtractAttempt
    \/ Backoff
    \/ AskCheckZip
    \/ ProvidersValidate
    \/ GeocodeZip
    \/ AskBestRated
    \/ AskAverageCost
    \/ AskCheapest
    \/ ProvidersQuery

Spec == Init /\ [][Next]_vars

\* /ask without OPENAI_API_KEY, answered from the large corpus
InitLarge == Init /\ request.endpoint = "ask" /\ api_key = None

AskBestRatedLarge == AskBestRatedOn({ LargeCorpus })

NextLarge ==
    \/ AskScopeGate
    \/ ExtractFallback
    \/ AskCheckZip
    \/ GeocodeZip
    \/ AskBestRatedLarge

SpecLarge == InitLarge /\ [][NextLarge]_vars

(***************************************************************************)
(* The claims.                                                             *)
(***************************************************************************)
IsAsk == request.endpoint = "ask"
Sent(status, kind) ==
    ~IsNone(response) /\ Val(response).status = status /\ Val(response).kind = kind
NoDownstreamCall ==
    /\ attempt_number = 0
    /\ client_calls = 0
    /\ fallback_calls = 0
    /\ geocode_calls = 0
    /\ storage_queries = 0

\* the question, stripped and lowercased, holds none of the domain keywords
OutOfScope ==
    IsAsk /\ LET q == Lower(Strip(request.question))
             IN  \A k \in ScopeKeywords : ~Contains(q, k)

\* C1: a question of /ask that fails the scope gate is answered with the fixed
\* scope rejection, and the request makes no downstream call: no extraction
\* (so no completion-service call and no fallback parse), no geocoding and
\* no storage query.
C1_OutOfScopeStopsAtGate ==
    OutOfScope =>
        /\ NoDownstreamCall
        /\ pc \in { "scope", "done" }
        /\ pc = "done" => response = Some(Response(200, "scope_rejection", << >>))

C1_Witness ==
    /\ OutOfScope
    /\ HasCredential
    /\ pc = "done"
    /\ Sent(200, "scope_rejection")
    /\ ~IsNone(FallbackZip(Strip(request.question)))

\* C2: when the extracted parameters of /ask carry no postal code, the request
\* is rejected with the missing-postal-code error before geocoding: neither
\* geocode_zip nor a storage query is invoked.
C2_MissingZipRejectedBeforeGeocoding ==
    (IsAsk /\ ~IsNone(params) /\ IsNone(Val(params).zip_code)) =>
        /\ geocode_calls = 0
        /\ storage_queries = 0
        /\ pc \in { "check_zip", "done" }
        /\ pc = "done" => response = Some(Response(400, "missing_zip", << >>))

\* a reply whose postal code was given and discarded by the sanitization
C2_Witness ==
    /\ IsAsk
    /\ Sent(400, "missing_zip")
    /\ ~IsNone(reply)
    /\ Val(reply).kind = "object"
    /\ Val(reply).data.zip_code.t = "str"
    /\ IsNone(Val(params).zip_code)

\* the lookup that was made found no record, or a record of NaN
LookupFailed ==
    ~IsNone(lookup) /\ (Val(lookup) = None \/ Val(lookup) = Some(NaNRecord))

\* C3: on /ask and on /providers, when geocoding of the postal code fails the
\* request ends with the invalid-location client error, geocoding was
\* attempted exactly once, and no storage query is issued.  Geocoding is
\* never attempted twice in a request.
C3_GeocodeFailureEndsRequest ==
    /\ geocode_calls <= 1
    /\ LookupFailed =>
          /\ pc = "done"
          /\ response = Some(Response(400, "invalid_zip", << >>))
          /\ geocode_calls = 1
          /\ storage_queries = 0

C3_Witness ==
    /\ LookupFailed
    /\ IsAsk
    /\ Val(lookup) = Some(NaNRecord)
    /\ Val(params).intent = "best_rated"
    /\ Sent(400, "invalid_zip")

C3_WitnessProviders ==
    /\ LookupFailed
    /\ ~IsAsk
    /\ Sent(400, "invalid_zip")

\* the credential and the client library are both there
Configured == api_key \notin { None, Some(<< >>) } /\ openai_installed

\* the latest reply made the attempt fail
LastReplyFailed ==
    ~IsNone(reply) /\ Val(reply).kind \in
        { "network_error", "service_error", "malformed", "non_object" }

\* C4: with a credential configured, extract makes at most 3 attempts against
\* the completion service and retries after every kind of failure; the waits
\* between attempts are 1, 2, ... (doubling from 1) and never exceed 8; after
\* the third consecutive failure the failure reaches the caller as a server
\* error, the fallback parser is not invoked and no geocoding or storage
\* query follows.
C4_RetryPolicy ==
    Configured =>
        /\ attempt_number <= 3
        /\ client_calls = attempt_number
        /\ fallback_calls = 0
        /\ \A i \in 1..Len(sleeps) : sleeps[i] = 2 ^ (i - 1) /\ sleeps[i] <= 8
        /\ (LastReplyFailed /\ attempt_number < 3) =>
              /\ pc \in { "backoff", "extract" }
              /\ Len(sleeps) = IF pc = "backoff" THEN attempt_number - 1 ELSE attempt_number
              /\ IsNone(response)
        /\ (LastReplyFailed /\ attempt_number = 3) =>
              /\ pc = "done"
              /\ response = Some(Response(500, "retry_error", << >>))
              /\ sleeps = << 1, 2 >>
              /\ IsNone(params)
              /\ geocode_calls = 0
              /\ storage_queries = 0

C4_Witness ==
    /\ Configured
    /\ attempt_number = 3
    /\ Val(reply).kind = "malformed"
    /\ Sent(500, "retry_error")
    /\ sleeps = << 1, 2 >>

\* extract_params_with_openai has returned or raised to the handler
ExtractEnded == attempt_number > 0 /\ pc \notin { "extract", "backoff" }

\* C5 as stated: extract is total, every call resolves to parameters and no
\* failure reaches its caller.
C5_ExtractIsTotal == ExtractEnded => ~IsNone(params)

\* C5, amended: extract resolves to parameters unless a credential is
\* configured and three consecutive attempts fail; exactly then the failure
\* reaches the caller (a server error) and there are no parameters.
C5_ExtractTotalUnlessRetriesExhausted ==
    ExtractEnded =>
        (IsNone(params) <=>
            /\ Configured
            /\ attempt_number = 3
            /\ Len(sleeps) = 2
            /\ LastReplyFailed
            /\ response = Some(Response(500, "retry_error", << >>)))

C5_Witness ==
    /\ ExtractEnded
    /\ Configured
    /\ attempt_number = 3
    /\ ~IsNone(params)
    /\ Len(sleeps) = 2

\* C6: with no credential configured, extract returns exactly the fallback
\* parse of the same question on the first attempt, and the completion
\* service is never called: no retry, no wait.
C6_NoCredentialUsesFallbackOnly ==
    (IsAsk /\ api_key \in { None, Some(<< >>) }) =>
        /\ client_calls = 0
        /\ attempt_number <= 1
        /\ sleeps = << >>
        /\ IsNone(reply)
        /\ fallback_calls = attempt_number
        /\ IsNone(params) <=> attempt_number = 0
        /\ ~IsNone(params) =>
              LET q == Strip(request.question)
              IN  /\ Val(params).intent = FallbackIntent(q)
                  /\ Val(params).drg_query = FallbackDrg(q)
                  /\ Val(params).zip_code = FallbackZip(q)
                  /\ Val(params).radius_km = FallbackRadius(q)
                  /\ Val(params).top_k = 3

C6_Witness ==
    /\ IsAsk
    /\ api_key = Some(<< >>)
    /\ openai_installed
    /\ pc = "done"
    /\ Sent(200, "best_rated")
    /\ Val(params).radius_km = Some(160)
    /\ Val(params).drg_query = Some(<< "4", "7", "0" >>)

MalformedKinds == { "malformed", "non_object" }
EmptyKinds == { "no_content", "empty_content" }

\* the attempt that got the latest reply produced no parameters and, while
\* the budget of 3 attempts lasts, another attempt follows
RetriedAsFailure ==
    /\ IsNone(params)
    /\ attempt_number < 3 => pc \in { "backoff", "extract" } /\ IsNone(response)
    /\ attempt_number >= 3 => pc = "done" /\ Sent(500, "retry_error")

\* C7 as stated: a malformed reply and an empty reply are both retryable
\* failures.
C7_MalformedOrEmptyIsRetried ==
    (~IsNone(reply) /\ Val(reply).kind \in MalformedKinds \cup EmptyKinds) => RetriedAsFailure

\* C7, amended: a reply that is not parseable as one JSON object is a
\* retryable failure; a reply with no content is read as the empty object,
\* so the attempt returns the all-default parameters and is not retried.
C7_MalformedIsRetriedEmptyIsDefaults ==
    /\ (~IsNone(reply) /\ Val(reply).kind \in MalformedKinds) => RetriedAsFailure
    /\ (~IsNone(reply) /\ Val(reply).kind \in EmptyKinds) =>
          /\ params = Some(NLParams("cheapest", None, None, Some(40), 3))
          /\ pc \in { "check_zip", "done" }
          /\ pc = "done" => Sent(400, "missing_zip")

C7_Witness ==
    /\ ~IsNone(reply)
    /\ Val(reply).kind = "non_object"
    /\ attempt_number = 2
    /\ pc = "backoff"

C7_WitnessEmpty ==
    /\ ~IsNone(reply)
    /\ Val(reply).kind = "no_content"
    /\ attempt_number = 3
    /\ Sent(400, "missing_zip")

AllDigits(s) == \A i \in 1..Len(s) : s[i] \in Range(DigitChars)

\* the intent value of a JSON object names none of the four intents
NamesNoIntent(j) ==
    j.t # "str" \/ IntentName(Lower(Strip(j.v))) \notin INTENT_CHOICES

\* the postal-code value of a JSON object is not five digits once stripped
NotFiveDigits(j) ==
    LET text == Strip(PyStr(j)) IN Len(text) # 5 \/ ~AllDigits(text)

\* C8: every NLParams extract returns, from the completion service or from
\* the fallback parser, has an intent of the enumeration and a postal code
\* that is absent or exactly 5 digits; a reply's missing or other intent
\* becomes cheapest and its postal code of any other form is discarded, the
\* call still returning parameters.
C8_ParamsAreValidated ==
    ~IsNone(params) =>
        /\ Val(params).intent \in
              { "cheapest", "best_rated", "average_cost", "compare_costs" }
        /\ \/ IsNone(Val(params).zip_code)
           \/ Len(Val(Val(params).zip_code)) = 5 /\ AllDigits(Val(Val(params).zip_code))
        /\ (~IsNone(reply) /\ Val(reply).kind = "object") =>
              /\ NamesNoIntent(Val(reply).data.intent) => Val(params).intent = "cheapest"
              /\ NotFiveDigits(Val(reply).data.zip_code) => IsNone(Val(params).zip_code)

C8_Witness ==
    /\ ~IsNone(params)
    /\ ~IsNone(reply)
    /\ Val(reply).kind = "object"
    /\ Val(reply).data.intent = JStr(<< "b", "o", "g", "u", "s" >>)
    /\ Val(reply).data.zip_code = JInt(1234)
    /\ Val(params).intent = "cheapest"
    /\ IsNone(Val(params).zip_code)

C8_WitnessFallback ==
    /\ IsNone(reply)
    /\ ~IsNone(params)
    /\ Val(params).intent = "average_cost"
    /\ ~IsNone(Val(params).zip_code)

\* C9: the best_rated answer never lists a provider twice, and lists the
\* providers by rating descending with the unrated ones last.
C9_BestRatedDistinctAndOrdered ==
    Sent(200, "best_rated") =>
        LET listed == Val(response).body
        IN  /\ Len(listed) = Len(unique_rows)
            /\ \A i \in 1..Len(listed) : listed[i].name = unique_rows[i].provider_id
            /\ \A i, j \in 1..Len(listed) :
                  i < j =>
                    /\ unique_rows[i].provider_id # unique_rows[j].provider_id
                    /\ IsNone(listed[i].rating) => IsNone(listed[j].rating)
                    /\ (~IsNone(listed[i].rating) /\ ~IsNone(listed[j].rating)) =>
                          Val(listed[i].rating) >= Val(listed[j].rating)

\* a provider with two matching procedures is listed once, before an unrated one
C9_Witness ==
    /\ Sent(200, "best_rated")
    /\ Len(rows) = 3
    /\ rows[1].provider_id = rows[2].provider_id
    /\ Len(unique_rows) = 2
    /\ IsNone(unique_rows[2].rating)

\* C10: for every top_k, 0 and negative values included, the best_rated
\* answer lists at most top_k providers.
C10_BestRatedAtMostTopK ==
    Sent(200, "best_rated") => Len(Val(response).body) <= Val(params).top_k

\* the request ran the statement of the named branch of /ask
Queried(intents) ==
    IsAsk /\ pc = "done" /\ storage_queries = 1 /\ Val(params).intent \in intents

\* the matching rows that carry a covered charge
PricedMatches ==
    { r \in AskMatching(corpus) : ~IsNone(r.average_covered_charges) }

\* C11: the average_cost answer reports the mean of the non-null covered
\* charges of the matching rows over the count of those rows (rows with a
\* null charge are in neither), and the no-match message when no matching
\* row has a charge.
C11_AverageExcludesNullCharges ==
    Queried({ "average_cost" }) =>
        IF PricedMatches = {}
        THEN Sent(200, "no_match_average")
        ELSE /\ Sent(200, "average")
             /\ Val(response).body[1].avg_cost =
                    Some([ sum |-> SumCharges(PricedMatches), n |-> Cardinality(PricedMatches) ])
             /\ Val(response).body[1].count = Cardinality(PricedMatches)

\* the intents that the cheapest / default branch serves
CheapestIntents == INTENT_CHOICES \ { "best_rated", "average_cost" }

\* C12: a request of the cheapest / default / compare_costs branch ends, for
\* every corpus and every top_k, either in the formatted answer naming the
\* provider and price of the first of the matching rows in price-ascending,
\* nulls-last order, or in the no-match message when the query yields no
\* row; it never ends in a fault.
C12_CheapestAnswersOrNoMatch ==
    Queried(CheapestIntents) =>
        \/ /\ Sent(200, "no_match")
           /\ rows = << >>
        \/ /\ Sent(200, "cheapest")
           /\ rows # << >>
           /\ rows[1] \in AskMatching(corpus)
           /\ \A r \in AskMatching(corpus) : PriceOrder(rows[1], r)
           /\ Val(response).body[1].name = rows[1].name
           /\ Some(Val(response).body[1].price) = rows[1].average_covered_charges

\* a statement was run and the request has ended
Searched == pc = "done" /\ storage_queries = 1

\* the text filter of the statement that was run
TextFilter == IF IsAsk THEN DrgFilter(Val(params)) ELSE request.drg

\* provider p of the corpus has both coordinates and lies within the radius
\* in effect of the geocoded point
GeoEligible(p) ==
    /\ ~IsNone(corpus[p].lat)
    /\ ~IsNone(corpus[p].lon)
    /\ MetresPerDegree * Abs(Val(corpus[p].lat) - Val(origin)[1]) <= Val(radius) * 1000

\* C13: in every query shape of /ask and in /providers, a provider with a
\* null latitude or a null longitude contributes no row to the result and
\* nothing to the aggregate, whatever the radius, and every contributing row
\* has a computed distance of at most the radius in effect.  The
\* average_cost statement yields no row and no aggregate at all.
C13_NoCoordinatesNeverMatches ==
    Searched =>
        /\ (IsAsk /\ Val(params).intent = "average_cost") => rows = << >>
        /\ \A i \in 1..Len(rows) :
              /\ GeoEligible(rows[i].provider_id)
              /\ ~IsNone(rows[i].distance_km)
              /\ Val(rows[i].distance_km) <= Val(radius) * 1000
        /\ \A i \in 1..Len(unique_rows) : GeoEligible(unique_rows[i].provider_id)
        /\ Sent(200, "providers") =>
              \A i \in 1..Len(Val(response).body) :
                  GeoEligible(Val(response).body[i].provider_id)
        /\ (Sent(200, "cheapest") \/ Sent(200, "best_rated")) =>
              \A i \in 1..Len(Val(response).body) :
                  GeoEligible(Val(response).body[i].name)

\* a stored provider lacks a coordinate and has a procedure the text filter matches
HasUnlocatedMatch ==
    \E p \in DOMAIN corpus :
        /\ IsNone(corpus[p].lat) \/ IsNone(corpus[p].lon)
        /\ \E k \in DOMAIN corpus[p].procs : ILikeContains(corpus[p].procs[k].drg, TextFilter)

\* /ask answered from the one located provider, at a radius (160 km) that
\* reaches every located provider of the corpus
C13_Witness ==
    /\ Searched /\ IsAsk
    /\ HasUnlocatedMatch
    /\ radius = Some(160)
    /\ Sent(200, "cheapest")
    /\ Len(rows) = 1

\* the list of /providers beside such a provider
C13_WitnessProviders ==
    /\ Searched /\ ~IsAsk
    /\ HasUnlocatedMatch
    /\ Sent(200, "providers")
    /\ Len(rows) = 1

\* a provider 111 km away is left out at the radius of 40 km
C13_WitnessTooFar ==
    /\ Searched
    /\ radius = Some(DefaultRadiusKm)
    /\ \E p \in DOMAIN corpus : corpus[p].lat = Some(41)
    /\ Len(rows) = 1
    /\ Sent(200, "best_rated")

\* C14: the radius the distance filter of /ask applies is the radius the
\* extracted parameters carry whenever they carry one, 0 included, and the
\* default of 40 km only when they carry none.
C14_RadiusIsParamsRadius ==
    (IsAsk /\ ~IsNone(radius)) =>
        radius = IF IsNone(Val(params).radius_km) THEN Some(DefaultRadiusKm)
                 ELSE Val(params).radius_km

\* C15: a valid /providers request (5-digit resolvable postal code, radius
\* in 1..500) succeeds for every corpus, corpora with null covered charges
\* in matching rows included, and returns at most 100 rows in ascending
\* order of covered charges, each matching the procedure text filter
\* case-insensitively.
C15_ProvidersSucceedsOrdered ==
    (Searched /\ ~IsAsk) =>
        /\ Sent(200, "providers")
        /\ LET results == Val(response).body
           IN  /\ Len(results) <= ProvidersLimit
               /\ \A i, j \in 1..Len(results) : i < j => PriceOrder(results[i], results[j])
               /\ \A i \in 1..Len(results) :
                     ILikeContains(results[i].ms_drg_definition, request.drg)

\* the question holds the text w
Says(w) == Contains(request.question, w)

\* the parameters are the fallback parser's
FallbackParsed == IsAsk /\ fallback_calls = 1 /\ ~IsNone(params)

\* C16: the fallback parser's radius is the number of the kilometer phrase
\* when the question has one, with or without a miles phrase beside it;
\* otherwise floor(m * 1609 / 1000) for a miles phrase of m (25 miles gives
\* 40, 100 miles 160); otherwise absent, never the default 40.
C16_FallbackRadius ==
    FallbackParsed =>
        LET radius_km == Val(params).radius_km
        IN  /\ Says(<< "w", "i", "t", "h", "i", "n", " ", "1", "0", " ", "k", "m" >>) => radius_km = Some(10)
            /\ Says(<< "w", "i", "t", "h", "i", "n", " ", "0", " ", "k", "m" >>) => radius_km = Some(0)
            /\ Says(<< "5", "k", "m", " ", "o", "r", " ", "2", "5", " ", "m", "i", "l", "e", "s" >>) => radius_km = Some(5)
            /\ Says(<< "w", "i", "t", "h", "i", "n", " ", "1", "0", "0", " ", "m", "i", "l", "e", "s" >>) => radius_km = Some((100 * 1609) \div 1000)
            /\ Says(<< "2", "5", " ", "M", "i", "l", "e", "s" >>) => radius_km = Some(40)
            /\ (~Contains(Lower(request.question), W_KM) /\ ~Contains(Lower(request.question), W_MI))
                  => radius_km = None

\* both phrasings in one question: the kilometer phrase wins
C16_Witness ==
    /\ FallbackParsed
    /\ Says(<< "5", "k", "m", " ", "o", "r", " ", "2", "5", " ", "m", "i", "l", "e", "s" >>)
    /\ Val(params).radius_km = Some(5)

\* a miles phrase alone, and no distance phrase at all
C16_WitnessMiles ==
    /\ FallbackParsed
    /\ Says(<< "2", "5", " ", "M", "i", "l", "e", "s" >>)
    /\ Val(params).radius_km = Some(40)

C16_WitnessAbsent ==
    /\ FallbackParsed
    /\ ~Contains(Lower(request.question), W_KM)
    /\ ~Contains(Lower(request.question), W_MI)
    /\ ~IsNone(Val(params).zip_code)
    /\ Val(params).radius_km = None

\* the providers with at least one text- and radius-matching procedure row
MatchingProviders == { r.provider_id : r \in AskMatching(corpus) }

\* C17: for top_k >= 1 the best_rated branch lists exactly min(top_k, D)
\* providers, D being the number of distinct providers with a matching row,
\* also when the matching rows outnumber the 500 rows fetched before the
\* deduplication.
C17_BestRatedListsMinTopKDistinct ==
    (Queried({ "best_rated" }) /\ Val(params).top_k >= 1) =>
        IF MatchingProviders = {}
        THEN Sent(200, "no_match")
        ELSE /\ Sent(200, "best_rated")
             /\ Len(Val(response).body) = Min(Val(params).top_k, Cardinality(MatchingProviders))

====
